---- MODULE Spec2Model ----
(***************************************************************************)
(* Model of spotify_upload_playlist_from_txt.py: text normalisation, the   *)
(* candidate scorer, the TXT parser, the search cascade and the playlist   *)
(* reconciliation of main().                                               *)
(*                                                                         *)
(* A Python str is a sequence of one-character strings, so that lower(),   *)
(* replace(), re.sub(), strip(), split() and the `in` substring test are   *)
(* computed character by character as the source computes them.            *)
(***************************************************************************)
EXTENDS Integers, Sequences, FiniteSets, TLC

(***************************************************************************)
(* Characters and the str methods the source uses                          *)
(***************************************************************************)
UpperChars == <<"A","B","C","D","E","F","G","H","I","J","K","L","M",
                "N","O","P","Q","R","S","T","U","V","W","X","Y","Z">>

LowerChars == <<"a","b","c","d","e","f","g","h","i","j","k","l","m",
                "n","o","p","q","r","s","t","u","v","w","x","y","z">>

\* the characters \s and str.strip() treat as white space
WhiteSpace == {" ", "\t"}

lower_char(c) ==
    IF \E i \in DOMAIN UpperChars : UpperChars[i] = c
    THEN LowerChars[CHOOSE i \in DOMAIN UpperChars : UpperChars[i] = c]
    ELSE c

\* str.lower()
str_lower(s) == [i \in 1..Len(s) |-> lower_char(s[i])]

\* str.replace("&", "and")
RECURSIVE replace_amp(_)
replace_amp(s) ==
    IF s = <<>> THEN <<>>
    ELSE (IF Head(s) = "&" THEN <<"a","n","d">> ELSE <<Head(s)>>)
         \o replace_amp(Tail(s))

\* re.sub(r"[./\-]", "", text)
remove_punct(s) == SelectSeq(s, LAMBDA c : c \notin {".", "/", "-"})

\* index of the first character at or after i that is not white space
RECURSIVE SkipSpaces(_, _)
SkipSpaces(s, i) ==
    IF i <= Len(s) /\ s[i] \in WhiteSpace THEN SkipSpaces(s, i + 1) ELSE i

\* re.sub(r"\s+", " ", text)
RECURSIVE collapse_ws(_)
collapse_ws(s) ==
    IF s = <<>> THEN <<>>
    ELSE IF Head(s) \in WhiteSpace
         THEN <<" ">> \o collapse_ws(SubSeq(s, SkipSpaces(s, 1), Len(s)))
         ELSE <<Head(s)>> \o collapse_ws(Tail(s))

RECURSIVE str_rstrip(_)
str_rstrip(s) ==
    IF s # <<>> /\ s[Len(s)] \in WhiteSpace
    THEN str_rstrip(SubSeq(s, 1, Len(s) - 1)) ELSE s

\* str.strip()
str_strip(s) == str_rstrip(SubSeq(s, SkipSpaces(s, 1), Len(s)))

\* s[i:i+len(w)] == w
HasAt(s, i, w) ==
    /\ i >= 1
    /\ i + Len(w) - 1 <= Len(s)
    /\ SubSeq(s, i, i + Len(w) - 1) = w

\* needle in hay
Contains(hay, needle) ==
    \E i \in 1..(Len(hay) - Len(needle) + 1) : HasAt(hay, i, needle)

\* hay.startswith(prefix)
StartsWith(hay, prefix) == HasAt(hay, 1, prefix)

Min(S) == CHOOSE x \in S : \A y \in S : x <= y

Max(S) == CHOOSE x \in S : \A y \in S : x >= y

(***************************************************************************)
(* normalize, normalize_track_for_matching                                 *)
(***************************************************************************)
normalize(text) ==
    IF text = <<>> THEN <<>>
    ELSE str_strip(collapse_ws(remove_punct(replace_amp(str_lower(text)))))

S_live == <<"l","i","v","e">>

\* the pattern \s*-\s*live matches at i (the .*$ that follows always does:
\* a normalised name holds no line break)
LiveSuffixAt(s, i) ==
    LET j == SkipSpaces(s, i)
    IN  /\ j <= Len(s)
        /\ s[j] = "-"
        /\ HasAt(s, SkipSpaces(s, j + 1), S_live)

\* re.sub(r"\s*-\s*live.*$", "", name): cut from the leftmost match
sub_live_suffix(s) ==
    LET starts == {i \in 1..Len(s) : LiveSuffixAt(s, i)}
    IN  IF starts = {} THEN s ELSE SubSeq(s, 1, Min(starts) - 1)

normalize_track_for_matching(name) == sub_live_suffix(normalize(name))

(***************************************************************************)
(* similarity: difflib.SequenceMatcher(None, a, b).ratio()                 *)
(***************************************************************************)
\* length of the common prefix of a[i..ahi] and b[j..bhi]
RECURSIVE CommonLen(_, _, _, _, _, _)
CommonLen(a, b, i, ahi, j, bhi) ==
    IF i <= ahi /\ j <= bhi /\ a[i] = b[j]
    THEN 1 + CommonLen(a, b, i + 1, ahi, j + 1, bhi)
    ELSE 0

\* find_longest_match: the longest block, the earliest in a, then in b
find_longest_match(a, b, alo, ahi, blo, bhi) ==
    LET k  == Max({0} \cup {CommonLen(a, b, i, ahi, j, bhi) :
                            i \in alo..ahi, j \in blo..bhi})
        i0 == Min({i \in alo..ahi :
                     \E j \in blo..bhi : CommonLen(a, b, i, ahi, j, bhi) = k})
        j0 == Min({j \in blo..bhi : CommonLen(a, b, i0, ahi, j, bhi) = k})
    IN  IF k = 0 THEN <<alo, blo, 0>> ELSE <<i0, j0, k>>

\* get_matching_blocks: total size of the blocks found left and right of
\* the longest one
RECURSIVE matching_size(_, _, _, _, _, _)
matching_size(a, b, alo, ahi, blo, bhi) ==
    IF alo > ahi \/ blo > bhi THEN 0
    ELSE LET m == find_longest_match(a, b, alo, ahi, blo, bhi)
         IN  IF m[3] = 0 THEN 0
             ELSE m[3]
                  + matching_size(a, b, alo, m[1] - 1, blo, m[2] - 1)
                  + matching_size(a, b, m[1] + m[3], ahi, m[2] + m[3], bhi)

\* int(similarity(a, b) * 30), with ratio() = 2.0 * matches / (len(a) + len(b))
\* and 1.0 for two empty strings
similarity_times_30(a, b) ==
    IF Len(a) + Len(b) = 0 THEN 30
    ELSE (60 * matching_size(a, b, 1, Len(a), 1, Len(b))) \div (Len(a) + Len(b))

(***************************************************************************)
(* Entries (dict: key -> str) and catalog tracks                           *)
(***************************************************************************)
K_track == <<"t","r","a","c","k">>

K_artist == <<"a","r","t","i","s","t">>

K_album == <<"a","l","b","u","m">>

\* entry.get(key, "")
Get(entry, key) == IF key \in DOMAIN entry THEN entry[key] ELSE <<>>

\* [normalize(a["name"]) for a in track["artists"]]
track_artists_of(track) ==
    [i \in 1..Len(track.artists) |-> normalize(track.artists[i])]

is_exact_track_artist_match(entry, track) ==
    LET entry_track  == normalize_track_for_matching(entry[K_track])
        track_name   == normalize_track_for_matching(track.name)
        entry_artist == normalize(Get(entry, K_artist))
    IN  IF entry_track # track_name THEN FALSE
        ELSE /\ entry_artist # <<>>
             /\ \E i \in 1..Len(track.artists) :
                    track_artists_of(track)[i] = entry_artist

clean_album_name(album, artist) ==
    IF album = <<>> \/ artist = <<>> THEN album
    ELSE LET album_norm == normalize(album)
             prefix     == normalize(artist) \o <<" ","-"," ">>
         IN  IF StartsWith(album_norm, prefix)
             THEN str_strip(SubSeq(album, Len(prefix) + 1, Len(album)))
             ELSE album

(***************************************************************************)
(* score_candidate                                                         *)
(***************************************************************************)
\* Track name (strongest signal)
track_term(entry, track) ==
    LET entry_track == normalize_track_for_matching(entry[K_track])
        track_name  == normalize_track_for_matching(track.name)
    IN  IF track_name = entry_track THEN 40
        ELSE similarity_times_30(track_name, entry_track)

\* Small bias if the catalog track has 'live' but the entry does not
live_term(entry, track) ==
    IF /\ Contains(normalize(track.name), S_live)
       /\ ~Contains(normalize(entry[K_track]), S_live)
    THEN 5 ELSE 0

\* the for loop over track_artists: the first artist that is equal or that
\* contains / is contained ends the loop
RECURSIVE artist_loop(_, _)
artist_loop(entry_artist, track_artists) ==
    IF track_artists = <<>> THEN -10
    ELSE LET a == Head(track_artists)
         IN  IF entry_artist = a THEN 40
             ELSE IF Contains(a, entry_artist) \/ Contains(entry_artist, a)
                  THEN 25
                  ELSE artist_loop(entry_artist, Tail(track_artists))

artist_term(entry, track) ==
    LET entry_artist == normalize(Get(entry, K_artist))
    IN  IF entry_artist # <<>>
        THEN artist_loop(entry_artist, track_artists_of(track))
        ELSE 0

album_term(entry, track) ==
    LET entry_album == normalize(clean_album_name(Get(entry, K_album),
                                                  Get(entry, K_artist)))
        album_name  == normalize(track.album)
    IN  IF entry_album # <<>> /\ Contains(album_name, entry_album)
        THEN 20 ELSE 0

\* Live album compatibility
live_album_term(entry, track) ==
    IF /\ Contains(normalize(Get(entry, K_album)), S_live)
       /\ Contains(normalize(track.album), S_live)
    THEN 10 ELSE 0

score_candidate(entry, track) ==
    track_term(entry, track) + live_term(entry, track)
    + artist_term(entry, track) + album_term(entry, track)
    + live_album_term(entry, track)

(***************************************************************************)
(* parse_txt_playlist                                                      *)
(***************************************************************************)
\* the empty dict
EmptyDict == [k \in {} |-> <<>>]

\* parts[key] = value
Put(parts, key, value) ==
    [k \in DOMAIN parts \cup {key} |-> IF k = key THEN value ELSE parts[k]]

CharsOf(s) == {s[i] : i \in 1..Len(s)}

IndexOf(s, c) == Min({i \in 1..Len(s) : s[i] = c})

\* s.split(sep) for a one-character separator
RECURSIVE str_split(_, _)
str_split(s, sep) ==
    IF sep \notin CharsOf(s) THEN <<s>>
    ELSE <<SubSeq(s, 1, IndexOf(s, sep) - 1)>>
         \o str_split(SubSeq(s, IndexOf(s, sep) + 1, Len(s)), sep)

\* Case 1: pipe-separated key=value; `segments` are the pieces of
\* line.split("|"), each stripped before use
RECURSIVE parse_pipe_segments(_, _)
parse_pipe_segments(segments, parts) ==
    IF segments = <<>> THEN parts
    ELSE LET segment == str_strip(Head(segments))
         IN  IF "=" \notin CharsOf(segment)
             THEN parse_pipe_segments(Tail(segments), parts)
             ELSE LET i     == IndexOf(segment, "=")
                      key   == str_lower(str_strip(SubSeq(segment, 1, i - 1)))
                      value == str_strip(SubSeq(segment, i + 1, Len(segment)))
                  IN  parse_pipe_segments(Tail(segments),
                                          Put(parts, key, value))

KeyWords == <<K_track, K_artist, K_album>>

\* KEY_VALUE_PATTERN's (track|artist|album): at i, re.IGNORECASE: the key in
\* lower case, or <<>> when none is there
KeyAt(s, i) ==
    LET hits == {n \in DOMAIN KeyWords :
                   HasAt(str_lower(s), i, KeyWords[n] \o <<":">>)}
    IN  IF hits = {} THEN <<>> ELSE KeyWords[Min(hits)]

\* KEY_VALUE_PATTERN's lookahead (?=\s+(?:track|artist|album):|$) before the
\* character at e
LookaheadAt(s, e) ==
    \/ SkipSpaces(s, e) > e /\ KeyAt(s, SkipSpaces(s, e)) # <<>>
    \/ e = Len(s) + 1

\* number of characters other than ":" from i on
RECURSIVE NonColonRun(_, _)
NonColonRun(s, i) ==
    IF i <= Len(s) /\ s[i] # ":" THEN 1 + NonColonRun(s, i + 1) ELSE 0

\* the match of KEY_VALUE_PATTERN that starts at i: <<key, value, end>>, end
\* the index after the match, or <<>> when there is none. ([^:]+) is greedy:
\* the longest run the lookahead accepts
MatchAt(s, i) ==
    LET key    == KeyAt(s, i)
        vstart == i + Len(key) + 1
        lens   == {n \in 1..NonColonRun(s, vstart) : LookaheadAt(s, vstart + n)}
    IN  IF key = <<>> \/ lens = {} THEN <<>>
        ELSE <<key, SubSeq(s, vstart, vstart + Max(lens) - 1),
               vstart + Max(lens)>>

\* Case 2: for match in KEY_VALUE_PATTERN.finditer(line)
RECURSIVE parse_regex_matches(_, _, _)
parse_regex_matches(line, i, parts) ==
    IF i > Len(line) THEN parts
    ELSE LET m == MatchAt(line, i)
         IN  IF m = <<>> THEN parse_regex_matches(line, i + 1, parts)
             ELSE parse_regex_matches(line, m[3],
                                      Put(parts, m[1], str_strip(m[2])))

\* the dict `parts` of one stripped line
parse_line_parts(line) ==
    IF "|" \in CharsOf(line) /\ "=" \in CharsOf(line)
    THEN parse_pipe_segments(str_split(line, "|"), EmptyDict)
    ELSE parse_regex_matches(line, 1, EmptyDict)

dedup_key(parts) ==
    <<str_lower(Get(parts, K_artist)), str_lower(Get(parts, K_album)),
      str_lower(Get(parts, K_track))>>

\* the parser's locals before the first line
ParseStart == [entries |-> <<>>, seen_keys |-> {}, skipped_lines |-> 0]

\* one iteration of the loop over the file's lines
parse_line(st, raw_line) ==
    LET line  == str_strip(raw_line)
        parts == parse_line_parts(line)
    IN  IF line = <<>> \/ StartsWith(line, <<"#">>) THEN st
        ELSE IF K_track \notin DOMAIN parts
             THEN [st EXCEPT !.skipped_lines = @ + 1]
             ELSE IF dedup_key(parts) \in st.seen_keys THEN st
                  ELSE [st EXCEPT !.seen_keys = @ \cup {dedup_key(parts)},
                                  !.entries = Append(@, parts)]

\* the locals after lines 1..n of the file
RECURSIVE parse_lines(_, _)
parse_lines(file, n) ==
    IF n = 0 THEN ParseStart ELSE parse_line(parse_lines(file, n - 1), file[n])

parse_txt_playlist(file) == parse_lines(file, Len(file)).entries


(***************************************************************************)
(* search_track_with_scoring                                               *)
(***************************************************************************)
\* the value None of a uri
None == "None"

\* search_queries: which of the four queries the entry's fields allow, in
\* the order they are appended
search_queries(entry) ==
    (IF Get(entry, K_artist) # <<>> THEN <<"track+artist">> ELSE <<>>)
    \o <<"track">>
    \o (IF Get(entry, K_album) # <<>> THEN <<"track+album">> ELSE <<>>)
    \o (IF Get(entry, K_artist) # <<>> THEN <<"artist">> ELSE <<>>)

\* `if not candidates: continue`: the cascade goes on to the next query
cascade_continues(candidates) == candidates = <<>>

\* immediate_accept with the threshold of the best-score test's neighbour
immediate_accept_from_80(score) == score >= 80

\* IMMEDIATE ACCEPT: exact, high-confidence match
immediate_accept(score) == score >= 85

\* `for track in candidates`, from candidate i on. best_track is an index
\* into candidates, 0 for None. scored counts the calls of score_candidate.
RECURSIVE candidates_loop(_, _, _, _, _)
candidates_loop(entry, candidates, i, best_track, best_score) ==
    IF i > Len(candidates)
    THEN [returned |-> FALSE, uri |-> None, best_track |-> best_track,
          best_score |-> best_score, scored |-> i - 1]
    ELSE LET score == score_candidate(entry, candidates[i])
         IN  IF immediate_accept(score)
             THEN [returned |-> TRUE, uri |-> candidates[i].uri,
                   best_track |-> best_track, best_score |-> best_score,
                   scored |-> i]
             ELSE IF score > best_score
                  THEN candidates_loop(entry, candidates, i + 1, i, score)
                  ELSE candidates_loop(entry, candidates, i + 1,
                                       best_track, best_score)

\* what the body of `for query in search_queries` returns for a response
\* that holds candidates: [uri, scored]
evaluate_candidates(entry, candidates) ==
    LET l == candidates_loop(entry, candidates, 1, 0, 0)
    IN  IF l.returned THEN [uri |-> l.uri, scored |-> l.scored]
        ELSE IF l.best_track # 0 /\ l.best_score >= 55
             THEN [uri |-> candidates[l.best_track].uri, scored |-> l.scored]
        ELSE IF /\ l.best_track # 0
                /\ is_exact_track_artist_match(entry, candidates[l.best_track])
                /\ l.best_score >= 50
             THEN [uri |-> candidates[l.best_track].uri, scored |-> l.scored]
        ELSE [uri |-> None, scored |-> l.scored]

(***************************************************************************)
(* Playlist helpers                                                        *)
(***************************************************************************)
\* a playlist item whose track is None (or has no uri)
NoTrack == "NoTrack"

\* get_all_playlist_track_uris: the uris of the items that have one
get_all_playlist_track_uris(items) ==
    {items[i] : i \in {j \in 1..Len(items) : items[j] # NoTrack}}

\* the orders list(existing_uris) may enumerate a set in
ListsOf(S) ==
    {l \in [1..Cardinality(S) -> S] : \A x \in S : \E i \in DOMAIN l : l[i] = x}

\* batch sizes. ADD_BATCH_SIZE and REMOVE_BATCH_SIZE are 100 in the source;
\* the model scales them down so that lists of a few uris span batches.
ADD_BATCH_SIZE == 2

REMOVE_BATCH_SIZE == 2

\* chunked(items, size): the number of batches, and the k-th batch
NumChunks(items, size) == (Len(items) + size - 1) \div size

chunked(items, size, k) ==
    SubSeq(items, (k - 1) * size + 1,
           IF k * size < Len(items) THEN k * size ELSE Len(items))

\* compute_uris_to_add without the test of the mode: only missing uris are
\* added in overwrite mode too
compute_uris_to_add_missing_only(overwrite, found_uris, existing_uris) ==
    SelectSeq(found_uris, LAMBDA u : u \notin existing_uris)

\* compute_uris_to_add without the filter: every found uri is added in
\* append mode too
compute_uris_to_add_all(overwrite, found_uris, existing_uris) == found_uris

\* Determine which tracks to add
compute_uris_to_add(overwrite, found_uris, existing_uris) ==
    IF overwrite THEN found_uris
    ELSE SelectSeq(found_uris, LAMBDA u : u \notin existing_uris)

\* backend: playlist_remove_all_occurrences_of_items
remove_all_occurrences(items, batch) ==
    SelectSeq(items, LAMBDA x : \A i \in DOMAIN batch : batch[i] # x)

\* backend: playlist_add_items
add_items(items, batch) == items \o batch

(***************************************************************************)
(* Strings of the inputs                                                   *)
(***************************************************************************)
\* "Ab"
S_Ab == <<"A","b">>

\* "Cd"
S_Cd == <<"C","d">>

\* "Abc"
S_Abc == <<"A","b","c">>

\* "Xy"
S_Xy == <<"X","y">>

\* "Ab (Live)"
S_Ab_paren_live == <<"A","b"," ","(","L","i","v","e",")">>

\* "Qr"
S_Qr == <<"Q","r">>

\* "Qrs"
S_Qrs == <<"Q","r","s">>

\* "Zz"
S_Zz == <<"Z","z">>

\* "-"
S_dash == <<"-">>

\* "Lp"
S_Lp == <<"L","p">>

\* "Mm"
S_Mm == <<"M","m">>

\* "Live Lp"
S_Live_Lp == <<"L","i","v","e"," ","L","p">>

\* " - "
S_sep == <<" ","-"," ">>

\* "Live"
S_Live == <<"L","i","v","e">>

\* "LIVE"
S_LIVE == <<"L","I","V","E">>

\* " at Y"
S_at_Y == <<" ","a","t"," ","Y">>

\* "artist=Qr | album=Lp | track=Ab"
L_pipe == <<"a","r","t","i","s","t","=","Q","r"," ","|"," ","a","l","b","u","m","=","L","p"," ","|"," ","t","r","a","c","k","=","A","b">>

\* "ARTIST=qr | ALBUM=lp | TRACK=ab"
L_pipe_upper == <<"A","R","T","I","S","T","=","q","r"," ","|"," ","A","L","B","U","M","=","l","p"," ","|"," ","T","R","A","C","K","=","a","b">>

\* "track:Ab artist:Qr"
L_colon == <<"t","r","a","c","k",":","A","b"," ","a","r","t","i","s","t",":","Q","r">>

\* "track:Abc artist:Qr"
L_colon_abc == <<"t","r","a","c","k",":","A","b","c"," ","a","r","t","i","s","t",":","Q","r">>

\* "track:Ab album:Lp"
L_colon_album == <<"t","r","a","c","k",":","A","b"," ","a","l","b","u","m",":","L","p">>

\* "foo bar baz"
L_malformed == <<"f","o","o"," ","b","a","r"," ","b","a","z">>

\* "# c"
L_comment == <<"#"," ","c">>

\* "  "
L_blank == <<" "," ">>

\* "artist=Qr | track="
L_pipe_no_value == <<"a","r","t","i","s","t","=","Q","r"," ","|"," ","t","r","a","c","k","=">>

\* "track:  artist:Qr"
L_colon_no_value == <<"t","r","a","c","k",":"," "," ","a","r","t","i","s","t",":","Q","r">>

\* "track=Ab"
L_equals_only == <<"t","r","a","c","k","=","A","b">>

(***************************************************************************)
(* Inputs the model draws from                                             *)
(***************************************************************************)
\* most candidates one search response holds (the source asks for limit=25)
MaxCandidates == 2

\* most lines of a TXT file
MaxLines == 3

\* most items of the playlist before the first run
MaxPlaylist == 2

SeqsUpTo(S, n) == UNION {[1..k -> S] : k \in 0..n}

\* marks a field the entry does not have
Absent == <<"absent">>

Entry(track, artist, album) ==
    [k \in {K_track} \cup (IF artist = Absent THEN {} ELSE {K_artist})
                     \cup (IF album = Absent THEN {} ELSE {K_album}) |->
        IF k = K_track THEN track ELSE IF k = K_artist THEN artist ELSE album]

Track(uri, name, artists, album) ==
    [uri |-> uri, name |-> name, artists |-> artists, album |-> album]

\* scorer inputs: titles, and catalog names "<title> - <Live><suffix>"
Titles == {S_Ab, S_Cd}

LiveWords == {S_live, S_Live, S_LIVE}

Suffixes == {<<>>, S_at_Y}

LiveName(t, w, s) == t \o S_sep \o w \o s

LiveNames == {LiveName(t, w, s) : t \in Titles, w \in LiveWords, s \in Suffixes}

ScoreNames == Titles \cup LiveNames \cup {S_Ab_paren_live, S_Abc, S_Xy}

ArtistLists == {<<S_Qr>>, <<S_Qrs, S_Qr>>, <<S_Zz, S_Qr>>, <<S_Zz>>, <<>>}

ScoreEntries ==
    {Entry(t, a, b) : t \in Titles \cup {S_Ab_paren_live},
                      a \in {Absent, S_Qr, S_dash},
                      b \in {Absent, S_Lp, S_Live_Lp}}

ScoreTracks ==
    {Track("u", n, a, b) : n \in ScoreNames, a \in ArtistLists,
                           b \in {S_Lp, S_Mm, S_Live_Lp}}

\* search inputs: entries with every combination of optional fields, and
\* candidates that score on both sides of each threshold against them
SearchEntries ==
    {Entry(S_Ab, a, b) : a \in {Absent, S_Qr}, b \in {Absent, S_Lp}}

SearchCandidates ==
    { Track("u1", S_Ab, <<S_Qr>>, S_Lp),
      Track("u2", S_Ab, <<S_Qrs, S_Qr>>, S_Lp),
      Track("u3", S_Abc, <<S_Qr>>, S_Lp),
      Track("u4", S_Ab, <<S_Zz>>, S_Lp),
      Track("u5", S_Ab_paren_live, <<S_Qr>>, S_Mm),
      Track("u6", S_Xy, <<S_Zz>>, S_Mm) }

SearchResponses == SeqsUpTo(SearchCandidates, MaxCandidates)

\* parser inputs
SampleLines ==
    { L_pipe, L_pipe_upper, L_colon, L_colon_album, L_malformed, L_comment,
      L_blank, L_pipe_no_value, L_colon_no_value, L_equals_only }

SampleFiles == SeqsUpTo(SampleLines, MaxLines)

\* inputs of a run of main(): the TXT file, the responses of the catalog
RunFiles ==
    { <<L_pipe, L_colon, L_colon_abc>>, <<L_comment, L_malformed>>,
      <<L_colon_album>> }

RunResponses ==
    { <<>>,
      <<Track("u2", S_Ab, <<S_Qrs, S_Qr>>, S_Lp)>>,
      <<Track("u3", S_Abc, <<S_Qr>>, S_Lp)>>,
      <<Track("u6", S_Xy, <<S_Zz>>, S_Mm)>> }

\* what the playlist may hold before the first run
PlaylistItems == {"u1", "u2", NoTrack}

Runs == {1, 2}

(***************************************************************************)
(* State                                                                   *)
(***************************************************************************)
VARIABLES
    s_entry, s_track, s_score, s_pc,   \* score_candidate: arguments, result
    p_file, p_n, p_st, p_pc,           \* parse_txt_playlist: file, lines read, locals
    run,                               \* main(): the locals of each run
    playlist_exists, playlist          \* backend: the target playlist, its items

scoreVars == <<s_entry, s_track, s_score, s_pc>>

parseVars == <<p_file, p_n, p_st, p_pc>>

runVars == <<run, playlist_exists, playlist>>

vars == <<s_entry, s_track, s_score, s_pc, p_file, p_n, p_st, p_pc,
          run, playlist_exists, playlist>>

\* the locals of a run that has not started. pc is the place in main();
\* entry, qi, qlog, candidates, uri, scored are those of the search in
\* progress or last made: its entry, the index of the next query, the number
\* of candidates each query issued so far returned, the last response, the
\* value returned and the number of candidates scored. calls lists the mutation calls
\* made, playlist0 is the playlist's content when the run started, raised
\* tells that a backend call of the run raised, after is the set of the runs
\* that were over when the run started.
IdleRun ==
    [pc |-> "start", overwrite |-> FALSE, txt_file |-> <<>>,
     entries |-> <<>>, idx |-> 1, entry |-> EmptyDict,
     qi |-> 1, qlog |-> <<>>, candidates |-> <<>>, uri |-> None, scored |-> 0,
     found_uris |-> <<>>, created |-> FALSE, existing_uris |-> {},
     existing_uris_list |-> <<>>, uris_to_add |-> <<>>, batch |-> 1,
     calls |-> <<>>, playlist0 |-> <<>>, raised |-> FALSE, after |-> {}]

ScoreIdle ==
    /\ s_entry = EmptyDict
    /\ s_track = Track("u", <<>>, <<>>, <<>>)
    /\ s_score = 0
    /\ s_pc = "idle"

ParseIdle ==
    /\ p_file = <<>>
    /\ p_n = 0
    /\ p_st = ParseStart
    /\ p_pc = "idle"

RunIdle ==
    /\ run = [r \in Runs |-> IdleRun]
    /\ playlist_exists = FALSE
    /\ playlist = <<>>

(***************************************************************************)
(* score_candidate on every entry and track of the pools                   *)
(***************************************************************************)
ScoreInit ==
    /\ s_entry \in ScoreEntries
    /\ s_track \in ScoreTracks
    /\ s_score = 0
    /\ s_pc = "call"
    /\ ParseIdle
    /\ RunIdle

\* score = 0, then one statement of score_candidate a step
ScoreTrackName ==
    /\ s_pc = "call"
    /\ s_score' = s_score + track_term(s_entry, s_track)
    /\ s_pc' = "live_bias"
    /\ UNCHANGED <<s_entry, s_track, parseVars, runVars>>

ScoreLiveBias ==
    /\ s_pc = "live_bias"
    /\ s_score' = s_score + live_term(s_entry, s_track)
    /\ s_pc' = "artist"
    /\ UNCHANGED <<s_entry, s_track, parseVars, runVars>>

ScoreArtist ==
    /\ s_pc = "artist"
    /\ s_score' = s_score + artist_term(s_entry, s_track)
    /\ s_pc' = "album"
    /\ UNCHANGED <<s_entry, s_track, parseVars, runVars>>

ScoreAlbum ==
    /\ s_pc = "album"
    /\ s_score' = s_score + album_term(s_entry, s_track)
    /\ s_pc' = "live_album"
    /\ UNCHANGED <<s_entry, s_track, parseVars, runVars>>

ScoreLiveAlbum ==
    /\ s_pc = "live_album"
    /\ s_score' = s_score + live_album_term(s_entry, s_track)
    /\ s_pc' = "return"
    /\ UNCHANGED <<s_entry, s_track, parseVars, runVars>>

ScoreNext ==
    \/ ScoreTrackName
    \/ ScoreLiveBias
    \/ ScoreArtist
    \/ ScoreAlbum
    \/ ScoreLiveAlbum

SpecScore == ScoreInit /\ [][ScoreNext]_vars

(***************************************************************************)
(* Claims about score_candidate and normalize_track_for_matching           *)
(***************************************************************************)
\* the track-matching names of entry and track are equal, and the entry's
\* normalised artist is one of the track's normalised artist names
ExactTrackAndArtist(entry, track) ==
    /\ normalize_track_for_matching(track.name)
         = normalize_track_for_matching(entry[K_track])
    /\ \E i \in 1..Len(track.artists) :
           normalize(track.artists[i]) = normalize(Get(entry, K_artist))

\* C3: exact match dominance: when the track-matching names are equal and
\* the entry's normalised artist equals one of the candidate's normalised
\* artist names, at any position, score_candidate returns at least 80.
C3_ExactMatchDominance ==
    (s_pc = "return" /\ ExactTrackAndArtist(s_entry, s_track))
        => s_score >= 80

\* C9: a catalog name "<t> - <live><s>" has the track-matching name of
\* <t>, in any letter case of "live", so that against an entry whose track
\* is <t> the track-name statement adds the exact-match 40.
C9_LiveSuffixStripped ==
    \A t \in Titles, w \in LiveWords, s \in Suffixes :
        (/\ s_pc = "live_bias"
         /\ s_entry[K_track] = t
         /\ s_track.name = LiveName(t, w, s))
        => /\ normalize_track_for_matching(s_track.name)
               = normalize_track_for_matching(t)
           /\ s_score = 40

(***************************************************************************)
(* parse_txt_playlist, one line at a time                                  *)
(***************************************************************************)
ParseInit ==
    /\ p_file \in SampleFiles
    /\ p_n = 0
    /\ p_st = ParseStart
    /\ p_pc = "loop"
    /\ ScoreIdle
    /\ RunIdle

ParseLine ==
    /\ p_pc = "loop"
    /\ p_n < Len(p_file)
    /\ p_n' = p_n + 1
    /\ p_st' = parse_line(p_st, p_file[p_n + 1])
    /\ UNCHANGED <<p_file, p_pc, scoreVars, runVars>>

ParseReturn ==
    /\ p_pc = "loop"
    /\ p_n = Len(p_file)
    /\ p_pc' = "return"
    /\ UNCHANGED <<p_file, p_n, p_st, scoreVars, runVars>>

ParseNext == ParseLine \/ ParseReturn

SpecParse == ParseInit /\ [][ParseNext]_vars

(***************************************************************************)
(* Claims about parse_txt_playlist                                         *)
(***************************************************************************)
\* the line is neither blank nor a comment
IsContentLine(raw_line) ==
    str_strip(raw_line) # <<>> /\ ~StartsWith(str_strip(raw_line), <<"#">>)

\* the line gives the track a value
HasTrackValue(raw_line) ==
    Get(parse_line_parts(str_strip(raw_line)), K_track) # <<>>

\* C10: when parse_txt_playlist returns, the skip counter is the number of
\* content lines without a track value (each skipped and counted, none
\* stopping the parse), and every entry returned has a non-empty track.
C10_LinesWithoutTrackSkipped ==
    p_pc = "return" =>
        /\ p_st.skipped_lines =
              Cardinality({n \in 1..Len(p_file) :
                             IsContentLine(p_file[n]) /\ ~HasTrackValue(p_file[n])})
        /\ \A i \in 1..Len(p_st.entries) : p_st.entries[i][K_track] # <<>>

(***************************************************************************)
(* main()                                                                  *)
(***************************************************************************)
\* places where main() has ended: print("Done."), sys.exit(1), an exception
\* of a backend call, the KeyError of entry['artist']
Terminal == {"done", "aborted", "failed", "crashed"}

\* the runs that are over
Completed == {o \in Runs : run[o].pc \in Terminal}

\* the runs take turns: a run starts when the runs before it have completed
Sequential(r) == \A o \in Runs : o < r => run[o].pc = "done"

\* a later run repeats the command line of the first
SameCommand(r, ow, file) ==
    \A o \in Runs :
        o < r => ow = run[o].overwrite /\ file = run[o].txt_file

\* main() up to the search loop: the arguments, parse_txt_playlist
Start(r) ==
    /\ run[r].pc = "start"
    /\ Sequential(r)
    /\ \E ow \in BOOLEAN, file \in RunFiles :
         /\ SameCommand(r, ow, file)
         /\ run' = [run EXCEPT ![r] =
                      [IdleRun EXCEPT !.pc = "search", !.overwrite = ow,
                                      !.txt_file = file,
                                      !.entries = parse_txt_playlist(file),
                                      !.playlist0 = playlist,
                                      !.after = Completed]]
    /\ UNCHANGED <<playlist_exists, playlist, scoreVars, parseVars>>

\* the locals after search_track_with_scoring returned uri for entry idx:
\* the body of `for idx, entry in enumerate(entries)`. The print of a found
\* entry reads entry['artist'], a KeyError when the line had no artist.
after_search(l, uri) ==
    IF uri = None
    THEN [l EXCEPT !.idx = @ + 1, !.qi = 1]
    ELSE IF K_artist \in DOMAIN l.entries[l.idx]
         THEN [l EXCEPT !.found_uris = Append(@, uri), !.idx = @ + 1, !.qi = 1]
         ELSE [l EXCEPT !.found_uris = Append(@, uri), !.pc = "crashed"]

\* query_step without the `return None` that ends the body of the loop over
\* the queries: a response whose candidates are all rejected falls through
\* to the next query
query_step_falls_through(l, candidates) ==
    LET entry == l.entries[l.idx]
        log   == IF l.qi = 1 THEN <<Len(candidates)>>
                 ELSE Append(l.qlog, Len(candidates))
        res   == evaluate_candidates(entry, candidates)
        asked == [l EXCEPT !.entry = entry, !.qlog = log,
                           !.candidates = candidates,
                           !.uri = res.uri, !.scored = res.scored]
    IN  IF res.uri = None
        THEN IF l.qi < Len(search_queries(entry))
             THEN [asked EXCEPT !.qi = @ + 1]
             ELSE after_search(asked, None)
        ELSE after_search(asked, res.uri)

\* one query of the cascade of entry idx, answered by `candidates`
query_step(l, candidates) ==
    LET entry == l.entries[l.idx]
        log   == IF l.qi = 1 THEN <<Len(candidates)>>
                 ELSE Append(l.qlog, Len(candidates))
        asked == [l EXCEPT !.entry = entry, !.qlog = log,
                           !.candidates = candidates,
                           !.uri = None, !.scored = 0]
        res   == evaluate_candidates(entry, candidates)
    IN  IF cascade_continues(candidates)
        THEN IF l.qi < Len(search_queries(entry))
             THEN [asked EXCEPT !.qi = @ + 1]
             ELSE after_search(asked, None)
        ELSE after_search([asked EXCEPT !.uri = res.uri,
                                        !.scored = res.scored], res.uri)

Query(r, responses) ==
    /\ run[r].pc = "search"
    /\ run[r].idx <= Len(run[r].entries)
    /\ \E candidates \in responses :
         run' = [run EXCEPT ![r] = query_step(@, candidates)]
    /\ UNCHANGED <<playlist_exists, playlist, scoreVars, parseVars>>

\* end_search without `if not found_uris: sys.exit(1)`
end_search_no_abort(l) ==
    [l EXCEPT !.pc = "lookup",
              !.entry = EmptyDict, !.qi = 1, !.qlog = <<>>,
              !.candidates = <<>>, !.uri = None, !.scored = 0]

\* after the loop: `if not found_uris: sys.exit(1)`. The locals of the last
\* call of search_track_with_scoring are gone.
end_search(l) ==
    [l EXCEPT !.pc = IF l.found_uris = <<>> THEN "aborted" ELSE "lookup",
              !.entry = EmptyDict, !.qi = 1, !.qlog = <<>>,
              !.candidates = <<>>, !.uri = None, !.scored = 0]

EndSearch(r) ==
    /\ run[r].pc = "search"
    /\ run[r].idx > Len(run[r].entries)
    /\ run' = [run EXCEPT ![r] = end_search(@)]
    /\ UNCHANGED <<playlist_exists, playlist, scoreVars, parseVars>>

\* get_current_user_id, find_playlist_by_name
Lookup(r) ==
    /\ run[r].pc = "lookup"
    /\ run' = [run EXCEPT ![r].pc = IF playlist_exists THEN "fetch" ELSE "create"]
    /\ UNCHANGED <<playlist_exists, playlist, scoreVars, parseVars>>

\* user_playlist_create
Create(r) ==
    /\ run[r].pc = "create"
    /\ playlist_exists' = TRUE
    /\ playlist' = <<>>
    /\ run' = [run EXCEPT ![r].pc = "fetch", ![r].created = TRUE]
    /\ UNCHANGED <<scoreVars, parseVars>>

\* the locals once the removal is over or skipped: uris_to_add, and the add
\* loop, which makes no call for an empty list
start_adding(l) ==
    LET to_add == compute_uris_to_add(l.overwrite, l.found_uris, l.existing_uris)
    IN  [l EXCEPT !.uris_to_add = to_add, !.batch = 1,
                  !.pc = IF to_add = <<>> THEN "done" ELSE "add"]

\* existing_uris = get_all_playlist_track_uris(...), list(existing_uris)
Fetch(r) ==
    /\ run[r].pc = "fetch"
    /\ \E l \in ListsOf(get_all_playlist_track_uris(playlist)) :
         LET got == [run[r] EXCEPT
                        !.existing_uris = get_all_playlist_track_uris(playlist),
                        !.existing_uris_list = l]
         IN  run' = [run EXCEPT ![r] =
                       IF got.overwrite /\ l # <<>>
                       THEN [got EXCEPT !.pc = "remove", !.batch = 1]
                       ELSE start_adding(got)]
    /\ UNCHANGED <<playlist_exists, playlist, scoreVars, parseVars>>

\* one batch of `for batch in chunked(existing_uris_list, REMOVE_BATCH_SIZE)`
Remove(r) ==
    LET l     == run[r]
        batch == chunked(l.existing_uris_list, REMOVE_BATCH_SIZE, l.batch)
        did   == [l EXCEPT !.calls = Append(@, <<"remove", batch>>)]
    IN  /\ l.pc = "remove"
        /\ playlist' = remove_all_occurrences(playlist, batch)
        /\ run' = [run EXCEPT ![r] =
                     IF l.batch < NumChunks(l.existing_uris_list, REMOVE_BATCH_SIZE)
                     THEN [did EXCEPT !.batch = @ + 1]
                     ELSE start_adding(did)]
        /\ UNCHANGED <<playlist_exists, scoreVars, parseVars>>

\* Add with the membership read again before each batch: the batch is sent
\* without the uris the playlist holds by now
Add_refetching(r) ==
    LET l     == run[r]
        now   == get_all_playlist_track_uris(playlist)
        batch == SelectSeq(chunked(l.uris_to_add, ADD_BATCH_SIZE, l.batch),
                           LAMBDA u : u \notin now)
        did   == [l EXCEPT !.calls = Append(@, <<"add", batch>>),
                           !.existing_uris = now]
    IN  /\ l.pc = "add"
        /\ playlist' = add_items(playlist, batch)
        /\ run' = [run EXCEPT ![r] =
                     IF l.batch < NumChunks(l.uris_to_add, ADD_BATCH_SIZE)
                     THEN [did EXCEPT !.batch = @ + 1]
                     ELSE [did EXCEPT !.pc = "done"]]
        /\ UNCHANGED <<playlist_exists, scoreVars, parseVars>>

\* one batch of `for i, batch in enumerate(chunked(uris_to_add, ADD_BATCH_SIZE))`
Add(r) ==
    LET l     == run[r]
        batch == chunked(l.uris_to_add, ADD_BATCH_SIZE, l.batch)
        did   == [l EXCEPT !.calls = Append(@, <<"add", batch>>)]
    IN  /\ l.pc = "add"
        /\ playlist' = add_items(playlist, batch)
        /\ run' = [run EXCEPT ![r] =
                     IF l.batch < NumChunks(l.uris_to_add, ADD_BATCH_SIZE)
                     THEN [did EXCEPT !.batch = @ + 1]
                     ELSE [did EXCEPT !.pc = "done"]]
        /\ UNCHANGED <<playlist_exists, scoreVars, parseVars>>

\* the places of main() whose next step is a backend call
AtBackendCall(l) ==
    \/ l.pc \in {"lookup", "create", "fetch", "remove", "add"}
    \/ l.pc = "search" /\ l.idx <= Len(l.entries)

\* on_backend_error with the exception caught and the call made again
on_backend_error_retry(l) == [l EXCEPT !.raised = TRUE]

\* the locals after the next backend call raised: nothing catches it
on_backend_error(l) == [l EXCEPT !.pc = "failed", !.raised = TRUE]

\* a backend call raises (network, auth, rate limit): it has no effect
BackendError(r) ==
    /\ AtBackendCall(run[r])
    /\ run' = [run EXCEPT ![r] = on_backend_error(@)]
    /\ UNCHANGED <<playlist_exists, playlist, scoreVars, parseVars>>

Init ==
    /\ run = [r \in Runs |-> IdleRun]
    /\ playlist_exists \in BOOLEAN
    /\ playlist \in SeqsUpTo(PlaylistItems, MaxPlaylist)
    /\ playlist_exists \/ playlist = <<>>
    /\ ScoreIdle
    /\ ParseIdle

Next ==
    \E r \in Runs :
        \/ Start(r)
        \/ Query(r, RunResponses)
        \/ EndSearch(r)
        \/ Lookup(r)
        \/ Create(r)
        \/ Fetch(r)
        \/ Remove(r)
        \/ Add(r)
        \/ BackendError(r)

Spec == Init /\ [][Next]_vars

(***************************************************************************)
(* Claims about the reconciliation of main()                               *)
(***************************************************************************)
\* the uris of the add calls, in the order sent
RECURSIVE AddedBy(_)
AddedBy(calls) ==
    IF calls = <<>> THEN <<>>
    ELSE (IF Head(calls)[1] = "add" THEN Head(calls)[2] ELSE <<>>)
         \o AddedBy(Tail(calls))

\* the uris of the remove calls
RemovedBy(calls) ==
    UNION {{calls[i][2][j] : j \in 1..Len(calls[i][2])} :
           i \in {k \in 1..Len(calls) : calls[k][1] = "remove"}}

NoRemoveCall(calls) == \A i \in 1..Len(calls) : calls[i][1] # "remove"

\* the playlist after the calls, each in full
RECURSIVE ApplyCalls(_, _)
ApplyCalls(items, calls) ==
    IF calls = <<>> THEN items
    ELSE ApplyCalls(IF Head(calls)[1] = "add"
                    THEN items \o Head(calls)[2]
                    ELSE SelectSeq(items,
                           LAMBDA x : \A j \in 1..Len(Head(calls)[2]) :
                                          Head(calls)[2][j] # x),
                    Tail(calls))

\* the uris the playlist holds, in order
UrisOf(items) == SelectSeq(items, LAMBDA x : x # NoTrack)

\* s with only the first occurrence of each element kept
RECURSIVE FirstOccurrences(_)
FirstOccurrences(s) ==
    IF s = <<>> THEN <<>>
    ELSE LET front == FirstOccurrences(SubSeq(s, 1, Len(s) - 1))
             last  == s[Len(s)]
         IN  IF \E i \in 1..Len(front) : front[i] = last
             THEN front ELSE Append(front, last)

\* no run started after run r
LastRun(r) == \A o \in Runs : o > r => run[o].pc = "start"

\* C4: a completed append-mode run has sent for addition exactly the found
\* uris that are not in the fetched membership, in their order, each once
\* (the first occurrence of a repeated uri), and has made no remove call.
C4_AppendAddsMissingOnce ==
    \A r \in Runs :
        (run[r].pc = "done" /\ ~run[r].overwrite) =>
            /\ AddedBy(run[r].calls) =
                  FirstOccurrences(
                      SelectSeq(run[r].found_uris,
                                LAMBDA u : u \notin run[r].existing_uris))
            /\ NoRemoveCall(run[r].calls)

\* C5: after a completed append-mode run, a second append-mode run that
\* finds the same uris computes an empty uris_to_add, makes no add and no
\* remove call, and ends with the playlist as it found it.
C5_AppendIdempotent ==
    (/\ run[1].pc = "done"
     /\ ~run[1].overwrite
     /\ ~run[2].overwrite
     /\ run[2].pc \in {"remove", "add", "done"}
     /\ run[2].found_uris = run[1].found_uris)
    => /\ run[2].uris_to_add = <<>>
       /\ run[2].calls = <<>>
       /\ run[2].pc = "done"
       /\ playlist = run[2].playlist0

\* the second run is over, after a first run that added two batches
C5_SecondRunAfterAdditions ==
    /\ run[1].pc = "done"
    /\ ~run[1].overwrite
    /\ Len(run[1].calls) = 2
    /\ ~run[2].overwrite
    /\ run[2].pc = "done"
    /\ run[2].found_uris = run[1].found_uris

\* C6: in overwrite mode no remove call follows an add call; once the
\* removal is over the remove calls cover exactly the fetched membership
\* (none is made for an empty one); a completed run has added the full
\* list of found uris and the playlist holds exactly those uris (items
\* without a track are no part of the fetched membership and stay: a
\* playlist that held only tracks is exactly the list of found uris).
C6_OverwriteReplaces ==
    \A r \in Runs :
        run[r].overwrite =>
            /\ \A i, j \in 1..Len(run[r].calls) :
                   (i < j /\ run[r].calls[i][1] = "add")
                       => run[r].calls[j][1] = "add"
            /\ \A i \in 1..Len(run[r].calls) : run[r].calls[i][2] # <<>>
            /\ run[r].pc \in {"add", "done"} =>
                   RemovedBy(run[r].calls) = run[r].existing_uris
            /\ run[r].pc = "done" =>
                   /\ AddedBy(run[r].calls) = run[r].found_uris
                   /\ LastRun(r) => UrisOf(playlist) = run[r].found_uris
                   /\ (LastRun(r) /\ UrisOf(run[r].playlist0) = run[r].playlist0)
                          => playlist = run[r].found_uris

\* the claim's example: existing {u1, u2}, desired [u2, u3], run completed
C6_ExampleRun ==
    \E r \in Runs :
        /\ run[r].overwrite
        /\ run[r].pc = "done"
        /\ run[r].existing_uris = {"u1", "u2"}
        /\ run[r].found_uris = <<"u2", "u3">>
        /\ RemovedBy(run[r].calls) = {"u1", "u2"}
        /\ playlist = <<"u2", "u3">>

\* C7: a run that has found no uri is searching, has failed in a search
\* call or has aborted: it never creates the playlist nor makes a remove or
\* add call, and the playlist is as the run found it.
C7_NoMutationWithoutFound ==
    \A r \in Runs :
        (run[r].pc # "start" /\ run[r].found_uris = <<>>) =>
            /\ run[r].pc \in {"search", "failed", "aborted"}
            /\ run[r].calls = <<>>
            /\ ~run[r].created
            /\ LastRun(r) => playlist = run[r].playlist0

\* an overwrite run over a playlist that holds items has searched every
\* entry of a file with entries, found none, and aborted
C7_AbortedAfterSearch ==
    \E r \in Runs :
        /\ run[r].pc = "aborted"
        /\ run[r].overwrite
        /\ Len(run[r].entries) >= 2
        /\ run[r].idx = Len(run[r].entries) + 1
        /\ playlist # <<>>

\* the playlist a run started from: the one it found or the one it created
StartingPlaylist(l) == IF l.created THEN <<>> ELSE l.playlist0

\* a run one of whose backend calls raised has stopped: its locals, among
\* them the list of calls made, and the playlist do not change any more
FailedRunStops ==
    \A r \in Runs :
        run[r].raised => (run'[r] = run[r] /\ playlist' = playlist)

\* C8: a run whose backend call failed makes no further call (no retry, no
\* later search, remove or add, no compensation), and the playlist holds
\* exactly the effect of the calls completed before the failure.
C8_FailureStopsRun ==
    /\ [](\A r \in Runs :
            run[r].raised =>
                playlist = ApplyCalls(StartingPlaylist(run[r]), run[r].calls))
    /\ [][FailedRunStops]_vars

\* an overwrite run failed in the add phase, after a first add batch: the
\* removed uris are gone and only that batch is in the playlist
C8_FailedWhileAdding ==
    \E r \in Runs :
        /\ run[r].raised
        /\ run[r].pc = "failed"
        /\ run[r].overwrite
        /\ run[r].existing_uris = {"u1", "u2"}
        /\ Len(run[r].uris_to_add) > ADD_BATCH_SIZE
        /\ AddedBy(run[r].calls) = SubSeq(run[r].uris_to_add, 1, ADD_BATCH_SIZE)
        /\ "u1" \notin {playlist[i] : i \in 1..Len(playlist)}

(***************************************************************************)
(* Invocations of main() that overlap, on a playlist that exists           *)
(***************************************************************************)
ConcurrentFiles == { <<L_colon>> }

ConcurrentResponses ==
    { <<>>,
      <<Track("u2", S_Ab, <<S_Qrs, S_Qr>>, S_Lp)>>,
      <<Track("u3", S_Abc, <<S_Qr>>, S_Lp)>> }

\* main() up to the search loop, started at any time: nothing makes an
\* invocation wait for another one
Launch(r) ==
    /\ run[r].pc = "start"
    /\ \E ow \in BOOLEAN, file \in ConcurrentFiles :
         run' = [run EXCEPT ![r] =
                   [IdleRun EXCEPT !.pc = "search", !.overwrite = ow,
                                   !.txt_file = file,
                                   !.entries = parse_txt_playlist(file),
                                   !.playlist0 = playlist,
                                   !.after = Completed]]
    /\ UNCHANGED <<playlist_exists, playlist, scoreVars, parseVars>>

ConcurrentInit ==
    /\ run = [r \in Runs |-> IdleRun]
    /\ playlist_exists = TRUE
    /\ playlist \in SeqsUpTo(PlaylistItems, MaxPlaylist)
    /\ ScoreIdle
    /\ ParseIdle

ConcurrentNext ==
    \E r \in Runs :
        \/ Launch(r)
        \/ Query(r, ConcurrentResponses)
        \/ EndSearch(r)
        \/ Lookup(r)
        \/ Fetch(r)
        \/ Remove(r)
        \/ Add(r)
        \/ BackendError(r)

SpecConcurrent == ConcurrentInit /\ [][ConcurrentNext]_vars

(***************************************************************************)
(* Claims about overlapping runs                                           *)
(***************************************************************************)
Count(u, s) == Cardinality({i \in 1..Len(s) : s[i] = u})

ElementsOf(s) == {s[i] : i \in 1..Len(s)}

\* the membership a run holds changes only in its step from the fetch
MembershipReadOnce ==
    \A r \in Runs :
        run'[r].existing_uris # run[r].existing_uris => run[r].pc = "fetch"

\* two append-mode runs are over, each found u once, and u was not in the
\* playlist when either started
BothAppendedWanting(r, o, u) ==
    /\ r # o
    /\ run[r].pc = "done" /\ ~run[r].overwrite
    /\ run[o].pc = "done" /\ ~run[o].overwrite
    /\ Count(u, run[r].found_uris) = 1
    /\ Count(u, run[o].found_uris) = 1

\* C11: a run reads the membership once, in its fetch, which precedes its
\* first mutation call, and an append-mode run adds exactly the found uris
\* absent from that reading, whatever the playlist holds by then; so of two
\* append-mode runs that both found u, absent from the playlist at first,
\* a run started after the other was over does not add u and the playlist
\* holds u once, and the playlist holds u twice only when the runs overlap.
C11_UnguardedRuns ==
    /\ [][MembershipReadOnce]_vars
    /\ [](\A r \in Runs :
            /\ run[r].calls # <<>> =>
                   run[r].pc \in {"remove", "add", "done", "failed"}
            /\ (run[r].pc = "done" /\ ~run[r].overwrite) =>
                   ElementsOf(AddedBy(run[r].calls)) =
                       {u \in ElementsOf(run[r].found_uris) :
                            u \notin run[r].existing_uris})
    /\ [](\A r, o \in Runs : \A u \in ElementsOf(run[r].found_uris) :
            (BothAppendedWanting(r, o, u) /\ u \notin ElementsOf(run[o].playlist0)) =>
                /\ o \in run[r].after =>
                       /\ u \notin ElementsOf(AddedBy(run[r].calls))
                       /\ Count(u, playlist) = 1
                /\ Count(u, playlist) = 2 =>
                       (o \notin run[r].after /\ r \notin run[o].after))

\* two overlapping append-mode runs both found u2 once, both fetched a
\* membership without u2, both added it: the playlist holds u2 twice
C11_AddedTwice ==
    /\ BothAppendedWanting(1, 2, "u2")
    /\ run[1].after = {} /\ run[2].after = {}
    /\ "u2" \notin ElementsOf(run[1].playlist0)
    /\ "u2" \notin ElementsOf(run[2].playlist0)
    /\ "u2" \notin run[1].existing_uris
    /\ "u2" \notin run[2].existing_uris
    /\ Count("u2", AddedBy(run[1].calls)) = 1
    /\ Count("u2", AddedBy(run[2].calls)) = 1
    /\ Count("u2", playlist) = 2

(***************************************************************************)
(* search_track_with_scoring on every entry and response of the pools      *)
(***************************************************************************)
SearchInit ==
    /\ \E e \in SearchEntries :
         run = [r \in Runs |->
                  IF r = 1 THEN [IdleRun EXCEPT !.pc = "search", !.entries = <<e>>]
                  ELSE IdleRun]
    /\ playlist_exists = FALSE
    /\ playlist = <<>>
    /\ ScoreIdle
    /\ ParseIdle

SearchNext ==
    \/ Query(1, SearchResponses)
    \/ BackendError(1)
    \/ EndSearch(1)

SpecSearch == SearchInit /\ [][SearchNext]_vars

(***************************************************************************)
(* Claims about search_track_with_scoring                                  *)
(***************************************************************************)
\* C1: of the queries issued for an entry, every one before the last
\* returned zero candidates: once a query has returned a candidate no later
\* query of the cascade is issued, whatever the candidates score.
C1_CascadeShortCircuit ==
    \A r \in Runs :
        \A i \in 1..(Len(run[r].qlog) - 1) : run[r].qlog[i] = 0

\* the search has returned NotFound after its second query returned
\* candidates, all rejected, with queries of the cascade left unissued
C1_RejectedWithQueriesLeft ==
    \E r \in Runs :
        /\ run[r].idx = 2
        /\ run[r].qlog = <<0, 2>>
        /\ run[r].uri = None
        /\ Len(search_queries(run[r].entry)) > 2

Scores(entry, candidates) ==
    [i \in 1..Len(candidates) |-> score_candidate(entry, candidates[i])]

\* the first of the candidates with the highest score
BestScoring(sc) ==
    Min({i \in DOMAIN sc : \A j \in DOMAIN sc : sc[j] <= sc[i]})

\* what the claim has the search return for a response that holds
\* candidates, and how many of them it has scored
SelectedByClaim(entry, candidates) ==
    LET sc   == Scores(entry, candidates)
        high == {i \in DOMAIN sc : sc[i] >= 85}
        best == BestScoring(sc)
    IN  IF high # {}
        THEN [uri |-> candidates[Min(high)].uri, scored |-> Min(high)]
        ELSE IF \/ sc[best] >= 55
                \/ /\ is_exact_track_artist_match(entry, candidates[best])
                   /\ sc[best] >= 50
             THEN [uri |-> candidates[best].uri, scored |-> Len(candidates)]
             ELSE [uri |-> None, scored |-> Len(candidates)]

\* C2: for the first response that holds candidates the search returns the
\* uri of the first candidate scoring >= 85, scoring none after it; else
\* the uri of the best-scoring candidate if it scores >= 55, or >= 50 and is
\* an exact (track, artist) match; else None. An empty response gives None.
\* main() appends exactly a uri returned.
C2_SelectionRule ==
    \A r \in Runs :
        run[r].qlog # <<>> =>
            /\ IF run[r].candidates = <<>>
               THEN run[r].uri = None /\ run[r].scored = 0
               ELSE /\ run[r].uri =
                         SelectedByClaim(run[r].entry, run[r].candidates).uri
                    /\ run[r].scored =
                         SelectedByClaim(run[r].entry, run[r].candidates).scored
            /\ run[r].found_uris =
                  IF run[r].uri = None THEN <<>> ELSE <<run[r].uri>>

\* the first of two candidates scored >= 85 and was returned, the second
\* left unscored
C2_ImmediateAccept ==
    \E r \in Runs :
        /\ Len(run[r].candidates) = 2
        /\ run[r].scored = 1
        /\ run[r].uri = run[r].candidates[1].uri
        /\ run[r].uri # run[r].candidates[2].uri
        /\ run[r].found_uris = <<run[r].uri>>

====
